---- MODULE Spec2Model ----
(***************************************************************************)
(* Model of iterm2_images/payloads.py: FileEsc (file transfer escape       *)
(* sequences), ImageDim / ImageLenUnit (sizes with a unit of measure) and  *)
(* ImageEsc (inline images: copy, detect_size, from_numpy, write and the   *)
(* scaling operators).                                                     *)
(*                                                                         *)
(* Byte strings and texts are sequences of numbers (bytes 0..255, Unicode  *)
(* code points).  Python objects that are mutable and can be shared        *)
(* (ImageDim, ImageEsc) live in heaps indexed by object identifiers, so    *)
(* that aliasing and deep copies are what the code makes them.             *)
(***************************************************************************)
EXTENDS Integers, Sequences, FiniteSets, TLC

(***************************************************************************)
(* Bounds of the model.                                                    *)
(***************************************************************************)
\* longest data buffer given to a constructor
MaxData == 3
\* longest display name
MaxName == 2
\* numbers are 0, +-2^e with -MaxExp <= e <= MaxExp, +-inf and nan
MaxExp == 2
\* ImageEsc / FileEsc objects alive at the same time
MaxObjs == 2
\* write() calls in one behaviour
MaxWrites == 2
\* largest array rank offered to from_numpy
MaxRank == 4
\* deepest chain of .buffer wrappers around a stream
MaxDepth == 2

(***************************************************************************)
(* Sequence helpers.                                                       *)
(***************************************************************************)
\* sep.join(parts)
RECURSIVE Join(_, _)
Join(sep, parts) ==
    IF parts = <<>> THEN <<>>
    ELSE IF Len(parts) = 1 THEN parts[1]
    ELSE parts[1] \o sep \o Join(sep, Tail(parts))

SeqsUpTo(S, n) == UNION {[1..m -> S] : m \in 0..n}

RECURSIVE Pow(_, _)
Pow(b, n) == IF n = 0 THEN 1 ELSE b * Pow(b, n - 1)

(***************************************************************************)
(* str(int): the decimal text of an integer.                               *)
(***************************************************************************)
RECURSIVE NatStr(_)
NatStr(n) == IF n < 10 THEN <<48 + n>> ELSE NatStr(n \div 10) \o <<48 + (n % 10)>>

IntStr(n) == IF n < 0 THEN <<45>> \o NatStr(0 - n) ELSE NatStr(n)

\* the decimal text of n, zero-padded on the left to w digits
RECURSIVE PadStr(_, _)
PadStr(n, w) == IF w = 0 THEN <<>> ELSE PadStr(n \div 10, w - 1) \o <<48 + (n % 10)>>

(***************************************************************************)
(* str.encode() / bytes.decode(): UTF-8 (code points below 0x10000).       *)
(***************************************************************************)
Utf8One(c) ==
    IF c < 128 THEN <<c>>
    ELSE IF c < 2048 THEN <<192 + (c \div 64), 128 + (c % 64)>>
    ELSE <<224 + (c \div 4096), 128 + ((c \div 64) % 64), 128 + (c % 64)>>

RECURSIVE Utf8Encode(_)
Utf8Encode(t) == IF t = <<>> THEN <<>> ELSE Utf8One(Head(t)) \o Utf8Encode(Tail(t))

RECURSIVE Utf8Decode(_)
Utf8Decode(b) ==
    IF b = <<>> THEN <<>>
    ELSE IF b[1] < 128 THEN <<b[1]>> \o Utf8Decode(Tail(b))
    ELSE IF b[1] < 224
         THEN <<(b[1] - 192) * 64 + (b[2] - 128)>> \o Utf8Decode(SubSeq(b, 3, Len(b)))
    ELSE <<(b[1] - 224) * 4096 + (b[2] - 128) * 64 + (b[3] - 128)>>
             \o Utf8Decode(SubSeq(b, 4, Len(b)))

(***************************************************************************)
(* base64.b64encode: standard alphabet, '=' padding, no line breaks.       *)
(***************************************************************************)
B64Char(i) ==
    IF i < 26 THEN 65 + i
    ELSE IF i < 52 THEN 97 + (i - 26)
    ELSE IF i < 62 THEN 48 + (i - 52)
    ELSE IF i = 62 THEN 43
    ELSE 47

B64Group(n) ==
    <<B64Char(n \div 262144), B64Char((n \div 4096) % 64),
      B64Char((n \div 64) % 64), B64Char(n % 64)>>

RECURSIVE b64encode(_)
b64encode(b) ==
    IF Len(b) = 0 THEN <<>>
    ELSE IF Len(b) = 1
         THEN SubSeq(B64Group(b[1] * 65536), 1, 2) \o <<61, 61>>
    ELSE IF Len(b) = 2
         THEN SubSeq(B64Group(b[1] * 65536 + b[2] * 256), 1, 3) \o <<61>>
    ELSE B64Group(b[1] * 65536 + b[2] * 256 + b[3]) \o b64encode(SubSeq(b, 4, Len(b)))

(***************************************************************************)
(* Python numbers.  A number is an int or a float; its magnitude is 0, a   *)
(* power of two 2^e, infinity or nan.  Floats overflow to inf above        *)
(* 2^MaxExp and underflow to a signed zero below 2^-MaxExp, as IEEE        *)
(* doubles do at their own range; ints are exact.                          *)
(***************************************************************************)
IntZero == [t |-> "int", k |-> "zero", s |-> 1, e |-> 0]
IntN(s, e) == [t |-> "int", k |-> "fin", s |-> s, e |-> e]
FloatZero(s) == [t |-> "float", k |-> "zero", s |-> s, e |-> 0]
Float(s, e) == [t |-> "float", k |-> "fin", s |-> s, e |-> e]
Inf(s) == [t |-> "float", k |-> "inf", s |-> s, e |-> 0]
NaN == [t |-> "float", k |-> "nan", s |-> 1, e |-> 0]
\* a value that is neither an int nor a float: a str
NotANumber == [t |-> "other", k |-> "nan", s |-> 1, e |-> 0]

\* isinstance(other, (int, float))
IsNumber(x) == x.t \in {"int", "float"}

\* other < 0
LessThanZero(x) == x.k \in {"fin", "inf"} /\ x.s = -1

\* a float of magnitude 2^e, rounded into the float range
FloatRound(s, e) ==
    IF e > MaxExp THEN Inf(s)
    ELSE IF e < 0 - MaxExp THEN FloatZero(s)
    ELSE Float(s, e)

\* a * b
NumMul(a, b) ==
    IF a.k = "nan" \/ b.k = "nan" THEN NaN
    ELSE IF (a.k = "inf" /\ b.k = "zero") \/ (a.k = "zero" /\ b.k = "inf") THEN NaN
    ELSE IF a.k = "inf" \/ b.k = "inf" THEN Inf(a.s * b.s)
    ELSE IF a.k = "zero" \/ b.k = "zero"
         THEN IF a.t = "int" /\ b.t = "int" THEN IntZero ELSE FloatZero(a.s * b.s)
    ELSE IF a.t = "int" /\ b.t = "int" THEN IntN(a.s * b.s, a.e + b.e)
    ELSE FloatRound(a.s * b.s, a.e + b.e)

\* the int n (a power of two, or 0) as a number
RECURSIVE Log2(_)
Log2(n) == IF n <= 1 THEN 0 ELSE 1 + Log2(n \div 2)

IsPow2(n) == n >= 1 /\ Pow(2, Log2(n)) = n

IntOf(n) == IF n = 0 THEN IntZero ELSE IntN(1, Log2(n))

\* a / b for b # 0: true division, always a float
NumDiv(a, b) ==
    IF a.k = "nan" \/ b.k = "nan" THEN NaN
    ELSE IF a.k = "inf" THEN (IF b.k = "inf" THEN NaN ELSE Inf(a.s * b.s))
    ELSE IF b.k = "inf" \/ a.k = "zero" THEN FloatZero(a.s * b.s)
    ELSE FloatRound(a.s * b.s, a.e - b.e)

\* 1 / other as IEEE division: a zero divisor gives an infinity
IeeeReciprocal(x) ==
    IF ~IsNumber(x) THEN [res |-> "TypeError", val |-> NaN]
    ELSE IF x.k = "zero" THEN [res |-> "ok", val |-> Inf(x.s)]
    ELSE [res |-> "ok", val |-> NumDiv(IntN(1, 0), x)]

\* 1 / other, line 204: the exception it raises, or the quotient
Reciprocal(x) ==
    IF ~IsNumber(x) THEN [res |-> "TypeError", val |-> NaN]
    ELSE IF x.k = "zero" THEN [res |-> "ZeroDivisionError", val |-> NaN]
    ELSE [res |-> "ok", val |-> NumDiv(IntN(1, 0), x)]

\* str(value): Python's shortest repr of an int or a float
NumStr(x) ==
    LET sign == IF x.s = -1 THEN <<45>> ELSE <<>>
    IN  IF x.k = "nan" THEN <<110, 97, 110>>
        ELSE IF x.k = "inf" THEN sign \o <<105, 110, 102>>
        ELSE IF x.t = "int"
             THEN IF x.k = "zero" THEN <<48>> ELSE sign \o NatStr(Pow(2, x.e))
        ELSE IF x.k = "zero" THEN sign \o <<48, 46, 48>>
        ELSE IF x.e >= 0 THEN sign \o NatStr(Pow(2, x.e)) \o <<46, 48>>
        ELSE sign \o <<48, 46>> \o PadStr(Pow(5, 0 - x.e), 0 - x.e)

(***************************************************************************)
(* ImageLenUnit and ImageDim.                                              *)
(***************************************************************************)
ImageLenUnit == {"CELLS", "PIXELS", "PERCENT", "AUTO"}

\* ImageLenUnit.<member>.value
UnitValue(u) ==
    CASE u = "CELLS" -> <<>>
      [] u = "PIXELS" -> <<112, 120>>
      [] u = "PERCENT" -> <<37>>
      [] u = "AUTO" -> <<97, 117, 116, 111>>

\* ImageDim(): value 0, unit AUTO
DefaultDim == [value |-> IntZero, unit |-> "AUTO"]

\* ImageDim.__str__
DimStr(d) ==
    IF d.unit = "AUTO" THEN UnitValue(d.unit)
    ELSE NumStr(d.value) \o UnitValue(d.unit)

(***************************************************************************)
(* Output streams.  A stream is a base object wrapped depth times in       *)
(* objects that expose the wrapped stream as their .buffer attribute (a    *)
(* TextIOWrapper around a BufferedWriter has depth 1).  A BufferedWriter   *)
(* is an io.BufferedIOBase, a FileIO an io.RawIOBase; a StringIO is a text *)
(* stream with no .buffer.                                                 *)
(***************************************************************************)
Sinks == {"BufferedWriter", "FileIO"}

Bases == Sinks \cup {"StringIO"}

Streams == [base : Bases, depth : 0..MaxDepth]

\* _get_binary_stream that looks at b.buffer but no further
ShallowBinaryStream(b) ==
    IF b.base \in Sinks /\ b.depth <= 1 THEN [res |-> "ok", sink |-> b.base]
    ELSE [res |-> "TypeError", sink |-> "none"]

\* FileEsc._get_binary_stream
RECURSIVE get_binary_stream(_)
get_binary_stream(b) ==
    IF b.depth = 0 /\ b.base \in Sinks THEN [res |-> "ok", sink |-> b.base]
    ELSE IF b.depth > 0 THEN get_binary_stream([base |-> b.base, depth |-> b.depth - 1])
    ELSE [res |-> "TypeError", sink |-> "none"]

(***************************************************************************)
(* FileEsc._write_args and the two write() methods.  An args dict is the   *)
(* sequence of its items in insertion order; a value is a str (text) or an *)
(* int, formatted by str.format.                                           *)
(***************************************************************************)
StrVal(t) == [t |-> "str", text |-> t, n |-> 0]
IntVal(n) == [t |-> "int", text |-> <<>>, n |-> n]

\* '{}={}'.format(k, v)
FormatItem(item) ==
    item.k \o <<61>> \o (IF item.v.t = "int" THEN IntStr(item.v.n) ELSE item.v.text)

\* ';'.join('{}={}'.format(k, v) for k, v in args.items())
FormatArgs(args) == Join(<<59>>, [i \in 1..Len(args) |-> FormatItem(args[i])])

\* the stream calls of _write_args, lines 57-60, in program order
FlushEarlySinkCalls(data, args) ==
    << [call |-> "write",
        bytes |-> <<27, 93, 49, 51, 51, 55, 59, 70, 105, 108, 101, 61>>
                    \o Utf8Encode(FormatArgs(args)) \o <<58>>],
       [call |-> "write", bytes |-> b64encode(data)],
       [call |-> "flush", bytes |-> <<>>],
       [call |-> "write", bytes |-> <<7, 10>>] >>

SinkCalls(data, args) ==
    << [call |-> "write",
        bytes |-> <<27, 93, 49, 51, 51, 55, 59, 70, 105, 108, 101, 61>>
                    \o Utf8Encode(FormatArgs(args)) \o <<58>>],
       [call |-> "write", bytes |-> b64encode(data)],
       [call |-> "write", bytes |-> <<7, 10>>],
       [call |-> "flush", bytes |-> <<>>] >>

\* a sink after the first n of the calls: what it holds, and how much of it
\* has been flushed
RECURSIVE AfterCalls(_, _, _)
AfterCalls(sink, calls, n) ==
    IF n = 0 THEN sink
    ELSE LET s == AfterCalls(sink, calls, n - 1)
             c == calls[n]
         IN  IF c.call = "write"
             THEN [held |-> s.held \o c.bytes, flushed |-> s.flushed]
             ELSE [held |-> s.held, flushed |-> Len(s.held)]

\* _write_args(b, args) on a payload holding data.  The sink raises OSError
\* in its fail-th call (fail = 0: no call raises); a call that raises has no
\* effect on the sink.
write_args(sinks, data, b, args, fail) ==
    LET r == get_binary_stream(b)
        calls == SinkCalls(data, args)
    IN  IF r.res # "ok" THEN [res |-> r.res, sinks |-> sinks]
        ELSE IF fail = 0
             THEN [res |-> "ok",
                   sinks |-> [sinks EXCEPT ![r.sink] = AfterCalls(@, calls, Len(calls))]]
        ELSE [res |-> "OSError",
              sinks |-> [sinks EXCEPT ![r.sink] = AfterCalls(@, calls, fail - 1)]]

\* FileEsc.write putting the name itself in the args
RawNameFileArgs(data, name) ==
    (IF name # <<>> THEN <<[k |-> <<110, 97, 109, 101>>, v |-> StrVal(name[1])]>>
     ELSE <<>>)
    \o <<[k |-> <<115, 105, 122, 101>>, v |-> IntVal(Len(data))]>>

\* the args dict built by FileEsc.write, lines 65-68; name is <<>> for None
\* and <<text>> otherwise
FileArgs(data, name) ==
    (IF name # <<>>
     THEN <<[k |-> <<110, 97, 109, 101>>,
             v |-> StrVal(Utf8Decode(b64encode(Utf8Encode(name[1]))))]>>
     ELSE <<>>)
    \o <<[k |-> <<115, 105, 122, 101>>, v |-> IntVal(Len(data))]>>

\* ImageEsc.write setting args['height'] before args['width']
HeightFirstImageArgs(data, name, width, height, preserve_aspect_ratio) ==
    (IF name # <<>>
     THEN <<[k |-> <<110, 97, 109, 101>>,
             v |-> StrVal(Utf8Decode(b64encode(Utf8Encode(name[1]))))]>>
     ELSE <<>>)
    \o <<[k |-> <<115, 105, 122, 101>>, v |-> IntVal(Len(data))],
         [k |-> <<104, 101, 105, 103, 104, 116>>, v |-> StrVal(DimStr(height))],
         [k |-> <<119, 105, 100, 116, 104>>, v |-> StrVal(DimStr(width))],
         [k |-> <<112, 114, 101, 115, 101, 114, 118, 101, 65, 115, 112, 101, 99,
                  116, 82, 97, 116, 105, 111>>,
          v |-> IntVal(IF preserve_aspect_ratio THEN 1 ELSE 0)],
         [k |-> <<105, 110, 108, 105, 110, 101>>, v |-> IntVal(1)]>>

\* the args dict built by ImageEsc.write, lines 183-190
ImageArgs(data, name, width, height, preserve_aspect_ratio) ==
    (IF name # <<>>
     THEN <<[k |-> <<110, 97, 109, 101>>,
             v |-> StrVal(Utf8Decode(b64encode(Utf8Encode(name[1]))))]>>
     ELSE <<>>)
    \o <<[k |-> <<115, 105, 122, 101>>, v |-> IntVal(Len(data))],
         [k |-> <<119, 105, 100, 116, 104>>, v |-> StrVal(DimStr(width))],
         [k |-> <<104, 101, 105, 103, 104, 116>>, v |-> StrVal(DimStr(height))],
         [k |-> <<112, 114, 101, 115, 101, 114, 118, 101, 65, 115, 112, 101, 99,
                  116, 82, 97, 116, 105, 111>>,
          v |-> IntVal(IF preserve_aspect_ratio THEN 1 ELSE 0)],
         [k |-> <<105, 110, 108, 105, 110, 101>>, v |-> IntVal(1)]>>

(***************************************************************************)
(* The external image codec (Pillow).  An encoded image is abstracted to   *)
(* three bytes: the first byte of the PNG signature, the width and the     *)
(* height in pixels (powers of two, so that half of one is a number of the *)
(* model); any other buffer is not an image.                               *)
(***************************************************************************)
\* fp.getvalue() after image.save(fp, format, **params)
EncodedImage(w, h) == <<137, w, h>>

\* Image.open(self.file).size
ImageOpenSize(bytes) ==
    IF Len(bytes) = 3 /\ bytes[1] = 137 /\ IsPow2(bytes[2]) /\ IsPow2(bytes[3])
    THEN [res |-> "ok", w |-> bytes[2], h |-> bytes[3]]
    ELSE [res |-> "UnidentifiedImageError", w |-> 0, h |-> 0]

(***************************************************************************)
(* The state: heaps of payload objects (FileEsc, ImageEsc), of ImageDim    *)
(* objects and of data buffers, the binary sinks, and the last call made   *)
(* with its outcome.  An object is in a heap while something refers to it. *)
(***************************************************************************)
VARIABLES
    objs,     \* live payload objects: id -> fields (width/height: ImageDim ids)
    dims,     \* live ImageDim objects: id -> [value, unit]
    bufs,     \* live data buffers: id -> [kind, bytes]
    origin,   \* for a payload made by copy(): the payload it was copied from
    sinks,    \* binary sink -> [held: bytes written, flushed: how many flushed]
    nwrites,  \* write() calls made so far
    numpy,    \* 'numpy' in sys.modules
    last      \* the last call: op, receiver, argument, outcome, returned object

vars == <<objs, dims, bufs, origin, sinks, nwrites, numpy, last>>

ObjIds == 1..MaxObjs
DimIds == 1..(2 * MaxObjs)
BufIds == 1..MaxObjs

Lowest(S) == CHOOSE i \in S : \A j \in S : i <= j

\* typing.ByteString
ByteStringKinds == {"bytes", "bytearray", "memoryview"}

NoCall ==
    [op |-> "none", obj |-> 0, arg |-> <<>>, res |-> "ok", note |-> "", ret |-> 0,
     codec |-> FALSE]

Call(op, obj, arg, res, ret) ==
    [op |-> op, obj |-> obj, arg |-> arg, res |-> res, note |-> "", ret |-> ret,
     codec |-> FALSE]

\* the ImageDim objects and buffers that live payloads refer to
DimsOf(o) == ({o[p].width : p \in DOMAIN o} \cup {o[p].height : p \in DOMAIN o}) \ {0}
BufsOf(o) == {o[p].buf : p \in DOMAIN o}

\* objects nothing refers to any more are reclaimed
Reclaim(o, h) == [i \in {j \in DOMAIN h : j \in DimsOf(o)} |-> h[i]]
ReclaimBufs(o, h) == [i \in {j \in DOMAIN h : j \in BufsOf(o)} |-> h[i]]

Init ==
    /\ objs = <<>>
    /\ dims = <<>>
    /\ bufs = <<>>
    /\ origin = <<>>
    /\ sinks = [s \in Sinks |-> [held |-> <<>>, flushed |-> 0]]
    /\ nwrites = 0
    /\ numpy = TRUE
    /\ last = NoCall

(***************************************************************************)
(* Construction.  A data argument is a new buffer [kind, bytes] or the     *)
(* buffer of a live payload; a width/height argument is left out           *)
(* ("default": the field's default_factory makes ImageDim()), a new        *)
(* ImageDim(value, unit), an ImageDim that a live payload holds ("ref"),   *)
(* or, for height, the very object passed as width ("same").               *)
(***************************************************************************)
NewDimOf(a) == IF a.src = "default" THEN DefaultDim ELSE [value |-> a.value, unit |-> a.unit]

\* FileEsc.__post_init__: isinstance(self.data, ByteString)
post_init(kind) == IF kind \in ByteStringKinds THEN "ok" ELSE "TypeError"

\* the heaps after cls(data, name, width, height, preserve_aspect_ratio)
\* made a payload with identifier p
Construct(p, cls, data, name, w, h, par) ==
    LET b == IF data.src = "ref" THEN data.id ELSE Lowest(BufIds \ DOMAIN bufs)
        bufs1 == IF data.src = "ref" THEN bufs
                 ELSE bufs @@ (b :> [kind |-> data.kind, bytes |-> data.bytes])
        wid == IF cls = "FileEsc" THEN 0
               ELSE IF w.src = "ref" THEN w.id
               ELSE Lowest(DimIds \ DOMAIN dims)
        dims1 == IF cls = "FileEsc" \/ w.src = "ref" THEN dims
                 ELSE dims @@ (wid :> NewDimOf(w))
        hid == IF cls = "FileEsc" THEN 0
               ELSE IF h.src = "ref" THEN h.id
               ELSE IF h.src = "same" THEN wid
               ELSE Lowest(DimIds \ DOMAIN dims1)
        dims2 == IF cls = "FileEsc" \/ h.src \in {"ref", "same"} THEN dims1
                 ELSE dims1 @@ (hid :> NewDimOf(h))
    IN  [objs |-> objs @@ (p :> [cls |-> cls, buf |-> b, name |-> name,
                                 width |-> wid, height |-> hid,
                                 preserve_aspect_ratio |-> par]),
         dims |-> dims2,
         bufs |-> bufs1]

ArgsLive(data, w, h) ==
    /\ data.src = "ref" => data.id \in DOMAIN bufs
    /\ w.src = "ref" => w.id \in DOMAIN dims
    /\ h.src = "ref" => h.id \in DOMAIN dims

\* FileEsc(data, name)
NewFileEsc(data, name) ==
    /\ DOMAIN objs # ObjIds
    /\ ArgsLive(data, [src |-> "default"], [src |-> "default"])
    /\ LET p == Lowest(ObjIds \ DOMAIN objs)
           kind == IF data.src = "ref" THEN bufs[data.id].kind ELSE data.kind
           new == Construct(p, "FileEsc", data, name, [src |-> "default"],
                            [src |-> "default"], FALSE)
       IN  IF post_init(kind) = "ok"
           THEN /\ objs' = new.objs
                /\ bufs' = new.bufs
                /\ origin' = origin @@ (p :> 0)
                /\ last' = Call("FileEsc", 0, data, "ok", p)
                /\ UNCHANGED dims
           ELSE /\ last' = Call("FileEsc", 0, data, post_init(kind), 0)
                /\ UNCHANGED <<objs, dims, bufs, origin>>
    /\ UNCHANGED <<sinks, nwrites, numpy>>

\* ImageEsc(data, name, width, height, preserve_aspect_ratio)
NewImageEsc(data, name, w, h, par) ==
    /\ DOMAIN objs # ObjIds
    /\ ArgsLive(data, w, h)
    /\ LET p == Lowest(ObjIds \ DOMAIN objs)
           kind == IF data.src = "ref" THEN bufs[data.id].kind ELSE data.kind
           new == Construct(p, "ImageEsc", data, name, w, h, par)
       IN  IF post_init(kind) = "ok"
           THEN /\ objs' = new.objs
                /\ dims' = new.dims
                /\ bufs' = new.bufs
                /\ origin' = origin @@ (p :> 0)
                /\ last' = Call("ImageEsc", 0, <<data, w, h>>, "ok", p)
           ELSE /\ last' = Call("ImageEsc", 0, <<data, w, h>>, post_init(kind), 0)
                /\ UNCHANGED <<objs, dims, bufs, origin>>
    /\ UNCHANGED <<sinks, nwrites, numpy>>

\* the last reference to payload p goes away
Drop(p) ==
    /\ p \in DOMAIN objs
    /\ LET o == [q \in DOMAIN objs \ {p} |-> objs[q]]
       IN  /\ objs' = o
           /\ dims' = Reclaim(o, dims)
           /\ bufs' = ReclaimBufs(o, bufs)
           /\ origin' = [q \in DOMAIN o |-> IF origin[q] = p THEN 0 ELSE origin[q]]
    /\ last' = Call("del", p, <<>>, "ok", 0)
    /\ UNCHANGED <<sinks, nwrites, numpy>>

(***************************************************************************)
(* ImageEsc.copy: copy.deepcopy(self).  The copy of an object is made once *)
(* (deepcopy's memo), so a width and a height that are one ImageDim in the *)
(* original are one ImageDim in the copy; bytes are immutable and are not  *)
(* duplicated; a memoryview cannot be deep-copied.                         *)
(***************************************************************************)
\* copy.copy(self): the copy refers to the original's ImageDim objects
ShallowCopy(p, c) ==
    [res |-> "ok",
     objs |-> objs @@ (c :> objs[p]),
     dims |-> dims,
     bufs |-> bufs]

DeepCopy(p, c) ==
    LET o == objs[p]
        b == bufs[o.buf]
        nb == IF b.kind = "bytes" THEN o.buf ELSE Lowest(BufIds \ DOMAIN bufs)
        nw == Lowest(DimIds \ DOMAIN dims)
        nh == IF o.height = o.width THEN nw ELSE Lowest(DimIds \ (DOMAIN dims \cup {nw}))
    IN  IF b.kind = "memoryview"
        THEN [res |-> "TypeError", objs |-> objs, dims |-> dims, bufs |-> bufs]
        ELSE [res |-> "ok",
              objs |-> objs @@ (c :> [o EXCEPT !.buf = nb, !.width = nw, !.height = nh]),
              dims |-> dims @@ (nw :> dims[o.width]) @@ (nh :> dims[o.height]),
              bufs |-> IF b.kind = "bytes" THEN bufs ELSE bufs @@ (nb :> b)]

\* esc.copy()
Copy(p) ==
    /\ p \in DOMAIN objs
    /\ objs[p].cls = "ImageEsc"
    /\ DOMAIN objs # ObjIds
    /\ LET c == Lowest(ObjIds \ DOMAIN objs)
           r == DeepCopy(p, c)
       IN  /\ objs' = r.objs
           /\ dims' = r.dims
           /\ bufs' = r.bufs
           /\ origin' = IF r.res = "ok" THEN origin @@ (c :> p) ELSE origin
           /\ last' = Call("copy", p, <<>>, r.res, IF r.res = "ok" THEN c ELSE 0)
    /\ UNCHANGED <<sinks, nwrites, numpy>>

(***************************************************************************)
(* ImageEsc.detect_size.                                                   *)
(***************************************************************************)
DetectSize(p, retina) ==
    /\ p \in DOMAIN objs
    /\ objs[p].cls = "ImageEsc"
    /\ LET scale == IF retina THEN 2 ELSE 1
           size == ImageOpenSize(bufs[objs[p].buf].bytes)
           others == [q \in DOMAIN objs \ {p} |-> objs[q]]
           kept == Reclaim(others, dims)
           nw == Lowest(DimIds \ DOMAIN kept)
           nh == Lowest(DimIds \ (DOMAIN kept \cup {nw}))
       IN  IF size.res = "ok"
           THEN /\ objs' = [objs EXCEPT ![p].width = nw, ![p].height = nh]
                /\ dims' = kept
                           @@ (nw :> [value |-> NumDiv(IntOf(size.w), IntOf(scale)),
                                      unit |-> "PIXELS"])
                           @@ (nh :> [value |-> NumDiv(IntOf(size.h), IntOf(scale)),
                                      unit |-> "PIXELS"])
                /\ last' = Call("detect_size", p, retina, "ok", p)
           ELSE /\ last' = Call("detect_size", p, retina, size.res, 0)
                /\ UNCHANGED <<objs, dims>>
    /\ UNCHANGED <<bufs, origin, sinks, nwrites, numpy>>

(***************************************************************************)
(* The scaling operators.  Each takes the heap of ImageDim objects and     *)
(* gives the outcome and the heap after it.                                *)
(***************************************************************************)
\* __imul__ that changes the unit along with the value
UnitDroppingImul(d, o, other) ==
    IF ~IsNumber(other) THEN [res |-> "NotImplemented", dims |-> d]
    ELSE IF LessThanZero(other) THEN [res |-> "ValueError", dims |-> d]
    ELSE LET d1 == [d EXCEPT ![o.width] = [value |-> NumMul(@.value, other),
                                           unit |-> "CELLS"]]
             d2 == [d1 EXCEPT ![o.height] = [value |-> NumMul(@.value, other),
                                             unit |-> "CELLS"]]
         IN  [res |-> "ok", dims |-> d2]

\* ImageEsc.__imul__ on the payload with fields o
imul(d, o, other) ==
    IF ~IsNumber(other) THEN [res |-> "NotImplemented", dims |-> d]
    ELSE IF LessThanZero(other) THEN [res |-> "ValueError", dims |-> d]
    ELSE LET d1 == [d EXCEPT ![o.width].value = NumMul(@, other)]
             d2 == [d1 EXCEPT ![o.height].value = NumMul(@, other)]
         IN  [res |-> "ok", dims |-> d2]

\* ImageEsc.__itruediv__
itruediv(d, o, other) ==
    LET r == Reciprocal(other)
    IN  IF r.res # "ok" THEN [res |-> r.res, dims |-> d] ELSE imul(d, o, r.val)

\* esc *= other
IMul(p, other) ==
    /\ p \in DOMAIN objs
    /\ objs[p].cls = "ImageEsc"
    /\ LET r == imul(dims, objs[p], other)
       IN  /\ dims' = r.dims
           /\ last' = Call("imul", p, other, r.res, IF r.res = "ok" THEN p ELSE 0)
    /\ UNCHANGED <<objs, bufs, origin, sinks, nwrites, numpy>>

\* esc /= other
ITrueDiv(p, other) ==
    /\ p \in DOMAIN objs
    /\ objs[p].cls = "ImageEsc"
    /\ LET r == itruediv(dims, objs[p], other)
       IN  /\ dims' = r.dims
           /\ last' = Call("itruediv", p, other, r.res, IF r.res = "ok" THEN p ELSE 0)
    /\ UNCHANGED <<objs, bufs, origin, sinks, nwrites, numpy>>

\* self.copy().__imul__(other) and self.copy().__itruediv__(other): the copy
\* is kept when the in-place operator returns it
Scaled(op, p, other) ==
    /\ p \in DOMAIN objs
    /\ objs[p].cls = "ImageEsc"
    /\ DOMAIN objs # ObjIds
    /\ LET c == Lowest(ObjIds \ DOMAIN objs)
           cp == DeepCopy(p, c)
           r == IF cp.res # "ok" THEN [res |-> cp.res, dims |-> dims]
                ELSE IF op = "truediv" THEN itruediv(cp.dims, cp.objs[c], other)
                ELSE imul(cp.dims, cp.objs[c], other)
       IN  IF r.res = "ok"
           THEN /\ objs' = cp.objs
                /\ dims' = r.dims
                /\ bufs' = cp.bufs
                /\ origin' = origin @@ (c :> p)
                /\ last' = Call(op, p, other, "ok", c)
           ELSE /\ last' = Call(op, p, other, r.res, 0)
                /\ UNCHANGED <<objs, dims, bufs, origin>>
    /\ UNCHANGED <<sinks, nwrites, numpy>>

\* esc * other
Mul(p, other) == Scaled("mul", p, other)

\* esc / other
TrueDiv(p, other) == Scaled("truediv", p, other)

\* other * esc: return self * other
RMul(p, other) == Scaled("rmul", p, other)

(***************************************************************************)
(* write(): FileEsc.write for a FileEsc, ImageEsc.write for an ImageEsc.   *)
(* The sink raises OSError in its fail-th call, or in none (fail = 0).     *)
(***************************************************************************)
WriteArgsOf(o) ==
    IF o.cls = "FileEsc" THEN FileArgs(bufs[o.buf].bytes, o.name)
    ELSE ImageArgs(bufs[o.buf].bytes, o.name, dims[o.width], dims[o.height],
                   o.preserve_aspect_ratio)

Write(p, b, fail) ==
    /\ p \in DOMAIN objs
    /\ nwrites < MaxWrites
    /\ get_binary_stream(b).res # "ok" => fail = 0
    /\ LET o == objs[p]
           r == write_args(sinks, bufs[o.buf].bytes, b, WriteArgsOf(o), fail)
       IN  /\ sinks' = r.sinks
           /\ last' = Call("write", p, [b |-> b, fail |-> fail], r.res,
                           IF r.res = "ok" THEN p ELSE 0)
    /\ nwrites' = nwrites + 1
    /\ UNCHANGED <<objs, dims, bufs, origin, numpy>>

(***************************************************************************)
(* ImageEsc.from_pil and ImageEsc.from_numpy.  A Pillow image is its size  *)
(* and its filename attribute: <<>> when it has none, <<parts>> with the   *)
(* parts of the path otherwise.  An array is its shape and its dtype.      *)
(***************************************************************************)
\* lines 126-130: the last part of the path, or None
PilName(image) ==
    IF image.filename = <<>> THEN <<>>
    ELSE IF image.filename[1] = <<>> THEN <<>>
    ELSE <<image.filename[1][Len(image.filename[1])]>>

\* the arguments of cls(...) in from_pil, lines 131-133
from_pil(image) ==
    [data |-> [src |-> "new", kind |-> "bytes",
               bytes |-> EncodedImage(image.w, image.h)],
     name |-> PilName(image),
     w |-> [src |-> "new", value |-> NumDiv(IntOf(image.w), IntOf(2)), unit |-> "PIXELS"],
     h |-> [src |-> "new", value |-> NumDiv(IntOf(image.h), IntOf(2)), unit |-> "PIXELS"]]

\* np.issubdtype(arr.dtype, np.floating)
IsFloating(dtype) == dtype \in {"float16", "float32", "float64"}

\* from_numpy with the dtype test made first
DtypeFirstChecks(loaded, arr) ==
    LET ndim == Len(arr.shape)
        dt == IF IsFloating(arr.dtype) THEN "uint8" ELSE arr.dtype
    IN  IF ~loaded THEN [res |-> "ImportError", note |-> "numpy", shape |-> arr.shape]
        ELSE IF dt # "uint8"
             THEN [res |-> "ValueError", note |-> "dtype", shape |-> arr.shape]
        ELSE IF ndim \notin {2, 3}
             THEN [res |-> "ValueError", note |-> "ndim", shape |-> arr.shape]
        ELSE IF \E i \in 1..ndim : arr.shape[i] = 0
             THEN [res |-> "ValueError", note |-> "zero", shape |-> arr.shape]
        ELSE IF ndim = 3 /\ arr.shape[3] # 1 /\ arr.shape[3] > 4
             THEN [res |-> "ValueError", note |-> "channels", shape |-> arr.shape]
        ELSE [res |-> "ok", note |-> "",
              shape |-> IF ndim = 3 /\ arr.shape[3] = 1 THEN SubSeq(arr.shape, 1, 2)
                        ELSE arr.shape]

\* lines 156-177: the exception raised (note: which message), or the shape
\* of the uint8 array handed to Image.fromarray
numpy_checks(loaded, arr) ==
    LET ndim == Len(arr.shape)
        shape == IF ndim = 3 /\ arr.shape[3] = 1 THEN SubSeq(arr.shape, 1, 2)
                 ELSE arr.shape
        dt == IF IsFloating(arr.dtype) THEN "uint8" ELSE arr.dtype
    IN  IF ~loaded THEN [res |-> "ImportError", note |-> "numpy", shape |-> arr.shape]
        ELSE IF ndim \notin {2, 3}
             THEN [res |-> "ValueError", note |-> "ndim", shape |-> arr.shape]
        ELSE IF \E i \in 1..ndim : arr.shape[i] = 0
             THEN [res |-> "ValueError", note |-> "zero", shape |-> arr.shape]
        ELSE IF ndim = 3 /\ arr.shape[3] # 1 /\ arr.shape[3] > 4
             THEN [res |-> "ValueError", note |-> "channels", shape |-> arr.shape]
        ELSE IF dt # "uint8"
             THEN [res |-> "ValueError", note |-> "dtype", shape |-> arr.shape]
        ELSE [res |-> "ok", note |-> "", shape |-> shape]

\* ImageEsc.from_pil(image)
FromPil(image) ==
    /\ DOMAIN objs # ObjIds
    /\ LET p == Lowest(ObjIds \ DOMAIN objs)
           a == from_pil(image)
           new == Construct(p, "ImageEsc", a.data, a.name, a.w, a.h, TRUE)
       IN  /\ objs' = new.objs
           /\ dims' = new.dims
           /\ bufs' = new.bufs
           /\ origin' = origin @@ (p :> 0)
           /\ last' = [Call("from_pil", 0, image, "ok", p) EXCEPT !.codec = TRUE]
    /\ UNCHANGED <<sinks, nwrites, numpy>>

\* ImageEsc.from_numpy(arr): Image.fromarray(arr) has size (shape[1], shape[0])
\* and no filename
FromNumpy(arr) ==
    /\ DOMAIN objs # ObjIds
    /\ LET p == Lowest(ObjIds \ DOMAIN objs)
           c == numpy_checks(numpy, arr)
           a == from_pil([w |-> c.shape[2], h |-> c.shape[1], filename |-> <<>>])
           new == Construct(p, "ImageEsc", a.data, a.name, a.w, a.h, TRUE)
       IN  IF c.res = "ok"
           THEN /\ objs' = new.objs
                /\ dims' = new.dims
                /\ bufs' = new.bufs
                /\ origin' = origin @@ (p :> 0)
                /\ last' = [Call("from_numpy", 0, arr, "ok", p) EXCEPT !.codec = TRUE]
           ELSE /\ last' = [Call("from_numpy", 0, arr, c.res, 0) EXCEPT !.note = c.note]
                /\ UNCHANGED <<objs, dims, bufs, origin>>
    /\ UNCHANGED <<sinks, nwrites, numpy>>

(***************************************************************************)
(* SpecScale: construction, copies, detect_size and the scaling operators  *)
(* on a heap of up to MaxObjs payloads.                                    *)
(***************************************************************************)
\* 2, 0, -0.0, -1.0, -inf and a str
ScaleFactors ==
    {IntN(1, 1), IntZero, FloatZero(-1), Float(-1, 0), Inf(-1), NotANumber}

ScaleData ==
    {[src |-> "new", kind |-> "bytes", bytes |-> EncodedImage(2, 4)],
     [src |-> "new", kind |-> "bytearray", bytes |-> <<58>>],
     [src |-> "new", kind |-> "memoryview", bytes |-> <<>>]}

ScaleWidths ==
    {[src |-> "default"], [src |-> "new", value |-> Float(1, 0), unit |-> "PIXELS"]}

ScaleHeights ==
    {[src |-> "same"], [src |-> "new", value |-> Float(1, 0), unit |-> "PERCENT"]}

NextScale ==
    \/ /\ DOMAIN objs = {}
       /\ \E data \in ScaleData, w \in ScaleWidths, h \in ScaleHeights :
             NewImageEsc(data, <<>>, w, h, TRUE)
    \/ \E p \in ObjIds : Copy(p)
    \/ \E p \in ObjIds, retina \in BOOLEAN : DetectSize(p, retina)
    \/ \E p \in ObjIds, other \in ScaleFactors : IMul(p, other)
    \/ \E p \in ObjIds, other \in ScaleFactors : ITrueDiv(p, other)
    \/ \E p \in ObjIds, other \in ScaleFactors : Mul(p, other)
    \/ \E p \in ObjIds, other \in ScaleFactors : TrueDiv(p, other)
    \/ \E p \in ObjIds, other \in ScaleFactors : RMul(p, other)

SpecScale == Init /\ [][NextScale]_vars

(***************************************************************************)
(* SpecWrite: one payload is constructed, scaled in place and written, to  *)
(* any stream and with any call of the sink raising.                       *)
(***************************************************************************)
WriteData ==
    {[src |-> "new", kind |-> "bytes", bytes |-> <<>>],
     [src |-> "new", kind |-> "bytearray", bytes |-> <<255, 58>>],
     [src |-> "new", kind |-> "str", bytes |-> <<>>]}

WriteNames == {<<>>, << <<65>> >>}

WriteWidths ==
    {[src |-> "default"],
     [src |-> "new", value |-> Float(1, 0), unit |-> "AUTO"],
     [src |-> "new", value |-> Float(1, 0), unit |-> "PIXELS"]}

\* 2 and 0.5
WriteFactors == {IntN(1, 1), Float(1, -1)}

NextWrite ==
    \/ /\ DOMAIN objs = {} /\ last.op = "none"
       /\ \E data \in WriteData, name \in WriteNames : NewFileEsc(data, name)
    \/ /\ DOMAIN objs = {} /\ last.op = "none"
       /\ \E data \in WriteData, w \in WriteWidths :
             NewImageEsc(data, <<>>, w, [src |-> "default"], TRUE)
    \/ \E p \in ObjIds, b \in Streams, fail \in 0..4 : Write(p, b, fail)
    \/ \E p \in ObjIds, other \in WriteFactors : IMul(p, other)
    \/ \E p \in ObjIds, other \in WriteFactors : ITrueDiv(p, other)

SpecWrite == Init /\ [][NextWrite]_vars

(***************************************************************************)
(* SpecEncode: every payload over small alphabets of data bytes and name   *)
(* characters is constructed and written to a binary stream.               *)
(***************************************************************************)
\* NUL, ':' and 0xff
DataBytes == {0, 58, 255}

\* 'A' and e-acute
NameChars == {65, 233}

EncodeNames == {<<>>} \cup {<<t>> : t \in SeqsUpTo(NameChars, MaxName)}

EncodeDims ==
    {[src |-> "default"],
     [src |-> "new", value |-> Float(1, 1), unit |-> "PIXELS"],
     [src |-> "new", value |-> Float(1, -1), unit |-> "PERCENT"],
     [src |-> "new", value |-> IntN(1, 2), unit |-> "CELLS"]}

NextEncode ==
    \/ /\ DOMAIN objs = {}
       /\ \E bytes \in SeqsUpTo(DataBytes, MaxData), kind \in {"bytes", "bytearray"},
             name \in EncodeNames :
             NewFileEsc([src |-> "new", kind |-> kind, bytes |-> bytes], name)
    \/ /\ DOMAIN objs = {}
       /\ \E bytes \in SeqsUpTo(DataBytes, MaxData), name \in EncodeNames,
             w \in EncodeDims, h \in EncodeDims, par \in BOOLEAN :
             NewImageEsc([src |-> "new", kind |-> "bytes", bytes |-> bytes],
                         name, w, h, par)
    \/ \E p \in ObjIds : Write(p, [base |-> "BufferedWriter", depth |-> 0], 0)

SpecEncode == Init /\ [][NextEncode]_vars

(***************************************************************************)
(* SpecArray: from_numpy on every array of rank up to MaxRank, with numpy  *)
(* imported or not, and from_pil.                                          *)
(***************************************************************************)
\* lengths of an array dimension
ShapeVals == {0, 1, 4, 8}

DTypes == {"uint8", "float32", "int64", "bool"}

Arrays == [shape : SeqsUpTo(ShapeVals, MaxRank), dtype : DTypes]

PilImages ==
    [w : {1, 2}, h : {2}, filename : {<<>>, << <<>> >>, << <<<<47>>, <<65>>>> >>}]

InitArray ==
    /\ objs = <<>>
    /\ dims = <<>>
    /\ bufs = <<>>
    /\ origin = <<>>
    /\ sinks = [s \in Sinks |-> [held |-> <<>>, flushed |-> 0]]
    /\ nwrites = 0
    /\ numpy \in BOOLEAN
    /\ last = NoCall

NextArray ==
    \/ /\ last.op \in {"none", "del"}
       /\ \E arr \in Arrays : FromNumpy(arr)
    \/ /\ last.op \in {"none", "del"}
       /\ \E image \in PilImages : FromPil(image)
    \/ \E p \in ObjIds : Drop(p)

SpecArray == InitArray /\ [][NextArray]_vars

(***************************************************************************)
(* A reader of the wire format, used to state the properties: it undoes    *)
(* framing, the argument string and base64 without using the encoders.     *)
(***************************************************************************)
Invalid == <<-1>>

B64Index(c) ==
    IF c >= 65 /\ c <= 90 THEN c - 65
    ELSE IF c >= 97 /\ c <= 122 THEN c - 71
    ELSE IF c >= 48 /\ c <= 57 THEN c + 4
    ELSE IF c = 43 THEN 62
    ELSE IF c = 47 THEN 63
    ELSE -1

RECURSIVE B64DecodeGroups(_)
B64DecodeGroups(t) ==
    IF t = <<>> THEN <<>>
    ELSE LET a == B64Index(t[1])
             b == B64Index(t[2])
             c == IF t[3] = 61 THEN 0 ELSE B64Index(t[3])
             d == IF t[4] = 61 THEN 0 ELSE B64Index(t[4])
             n == a * 262144 + b * 4096 + c * 64 + d
             all == <<n \div 65536, (n \div 256) % 256, n % 256>>
         IN  IF t[3] = 61 THEN <<all[1]>>
             ELSE IF t[4] = 61 THEN <<all[1], all[2]>>
             ELSE all \o B64DecodeGroups(SubSeq(t, 5, Len(t)))

\* the bytes a padded standard base64 text stands for, Invalid if it is none
B64Decode(t) ==
    IF Len(t) % 4 # 0 THEN Invalid
    ELSE IF \E i \in 1..Len(t) :
               /\ B64Index(t[i]) = -1
               /\ ~(t[i] = 61 /\ i > Len(t) - 2 /\ (i = Len(t) \/ t[Len(t)] = 61))
         THEN Invalid
    ELSE B64DecodeGroups(t)

\* the position of the first c in t at or after i, 0 if there is none
RECURSIVE FirstFrom(_, _, _)
FirstFrom(t, c, i) ==
    IF i > Len(t) THEN 0 ELSE IF t[i] = c THEN i ELSE FirstFrom(t, c, i + 1)

FirstIndex(t, c) == FirstFrom(t, c, 1)

\* t.split(c)
RECURSIVE Split(_, _)
Split(t, c) ==
    LET i == FirstIndex(t, c)
    IN  IF i = 0 THEN <<t>>
        ELSE <<SubSeq(t, 1, i - 1)>> \o Split(SubSeq(t, i + 1, Len(t)), c)

\* a decimal text as a number, -1 if it is none
RECURSIVE ParseNat(_)
ParseNat(t) ==
    IF t = <<>> \/ \E i \in 1..Len(t) : t[i] < 48 \/ t[i] > 57 THEN -1
    ELSE IF Len(t) = 1 THEN t[1] - 48
    ELSE ParseNat(SubSeq(t, 1, Len(t) - 1)) * 10 + (t[Len(t)] - 48)

\* 'key=value' as a pair, split at its first '='
ParseItem(t) ==
    LET i == FirstIndex(t, 61)
    IN  IF i = 0 THEN [k |-> t, v |-> Invalid]
        ELSE [k |-> SubSeq(t, 1, i - 1), v |-> SubSeq(t, i + 1, Len(t))]

ParseItems(texts) == [i \in 1..Len(texts) |-> ParseItem(texts[i])]

\* one escape sequence taken apart: ok is whether it starts with the start
\* marker, ends with BEL and a newline and has a ':' in between
ParseSequence(t) ==
    LET marker == <<27, 93, 49, 51, 51, 55, 59, 70, 105, 108, 101, 61>>
        framed == /\ Len(t) >= 15
                  /\ SubSeq(t, 1, 12) = marker
                  /\ SubSeq(t, Len(t) - 1, Len(t)) = <<7, 10>>
        colon == FirstFrom(t, 58, 13)
    IN  IF ~framed \/ colon = 0 \/ colon > Len(t) - 2
        THEN [ok |-> FALSE, items |-> <<>>, body |-> <<>>]
        ELSE [ok |-> TRUE,
              items |-> ParseItems(Split(SubSeq(t, 13, colon - 1), 59)),
              body |-> SubSeq(t, colon + 1, Len(t) - 2)]

Keys(items) == [i \in 1..Len(items) |-> items[i].k]

\* the value of the first item with key k, Invalid if there is none
ValueOf(items, k) ==
    IF \E i \in 1..Len(items) : items[i].k = k
    THEN items[CHOOSE i \in 1..Len(items) :
                 items[i].k = k /\ \A j \in 1..(i - 1) : items[j].k # k].v
    ELSE Invalid

KeyName == <<110, 97, 109, 101>>
KeySize == <<115, 105, 122, 101>>
KeyWidth == <<119, 105, 100, 116, 104>>
KeyHeight == <<104, 101, 105, 103, 104, 116>>
KeyAspect ==
    <<112, 114, 101, 115, 101, 114, 118, 101, 65, 115, 112, 101, 99, 116, 82, 97,
      116, 105, 111>>
KeyInline == <<105, 110, 108, 105, 110, 101>>
TextAuto == <<97, 117, 116, 111>>

\* the bytes that this step appended to sink s
Emitted(s) == SubSeq(sinks'[s].held, Len(sinks[s].held) + 1, Len(sinks'[s].held))

\* this step is a call of write(), and one that returned
IsWrite == nwrites' = nwrites + 1
IsWriteOk == IsWrite /\ last'.res = "ok"

\* the data buffer of payload p
DataOf(p) == bufs[objs[p].buf].bytes

(***************************************************************************)
(* Properties of write().                                                  *)
(***************************************************************************)
\* C1: every write() that returns appends to the sink its target resolves
\* to (the base of the wrapper chain) exactly the start marker, the joined
\* argument string, ':', the padded base64 of the whole data with no line
\* break, BEL and a newline, and leaves everything written flushed; no other
\* sink changes.  Hence n writes leave n complete sequences.
C1_WriteAppendsOneSequence ==
    [][IsWriteOk =>
        LET p == last'.obj
            s == last'.arg.b.base
            body == b64encode(DataOf(p))
        IN  /\ s \in Sinks
            /\ Emitted(s) = <<27, 93, 49, 51, 51, 55, 59, 70, 105, 108, 101, 61>>
                            \o Utf8Encode(FormatArgs(WriteArgsOf(objs[p])))
                            \o <<58>> \o body \o <<7, 10>>
            /\ SubSeq(sinks'[s].held, 1, Len(sinks[s].held)) = sinks[s].held
            /\ Len(body) = 4 * ((Len(DataOf(p)) + 2) \div 3)
            /\ \A i \in 1..Len(body) : body[i] \notin {10, 13}
            /\ B64Decode(body) = DataOf(p)
            /\ sinks'[s].flushed = Len(sinks'[s].held)
            /\ \A t \in Sinks \ {s} : sinks'[t] = sinks[t]]_vars

\* two writes that returned have left two complete sequences on one sink
C1_Witness ==
    /\ last.op = "write" /\ last.res = "ok" /\ nwrites = 2
    /\ \E s \in Sinks :
          LET parts == Split(sinks[s].held, 10)
          IN  /\ Len(parts) = 3
              /\ ParseSequence(parts[1] \o <<10>>).ok
              /\ ParseSequence(parts[2] \o <<10>>).ok
              /\ sinks[s].flushed = Len(sinks[s].held)

\* C2: the argument string of a written sequence has the keys name (if and
\* only if the payload has a name), size, and for an ImageEsc width, height,
\* preserveAspectRatio, inline, in this order; name is the base64 of the
\* name, size the length of the data whose base64 is the body,
\* preserveAspectRatio 0 or 1 as the flag says, inline=1 for an ImageEsc and
\* absent for a FileEsc.
C2_ArgumentOrder ==
    [][IsWriteOk =>
        LET o == objs[last'.obj]
            named == IF o.name = <<>> THEN <<>> ELSE <<KeyName>>
        IN  \A seq \in {ParseSequence(Emitted(last'.arg.b.base))} :
            /\ seq.ok
            /\ Keys(seq.items) =
                  named \o <<KeySize>>
                  \o (IF o.cls = "ImageEsc"
                      THEN <<KeyWidth, KeyHeight, KeyAspect, KeyInline>>
                      ELSE <<>>)
            /\ o.name # <<>> =>
                  Utf8Decode(B64Decode(ValueOf(seq.items, KeyName))) = o.name[1]
            /\ ParseNat(ValueOf(seq.items, KeySize)) = Len(B64Decode(seq.body))
            /\ B64Decode(seq.body) = DataOf(last'.obj)
            /\ o.cls = "ImageEsc" =>
                  /\ ValueOf(seq.items, KeyAspect) =
                        (IF o.preserve_aspect_ratio THEN <<49>> ELSE <<48>>)
                  /\ ValueOf(seq.items, KeyInline) = <<49>>
                  /\ ValueOf(seq.items, KeyWidth) = DimStr(dims[o.width])
                  /\ ValueOf(seq.items, KeyHeight) = DimStr(dims[o.height])]_vars

\* a named ImageEsc whose preserve_aspect_ratio is off has been written
C2_Witness ==
    /\ last.op = "write" /\ last.res = "ok"
    /\ objs[last.obj].cls = "ImageEsc"
    /\ objs[last.obj].name = << <<233, 65>> >>
    /\ ~objs[last.obj].preserve_aspect_ratio
    /\ Len(DataOf(last.obj)) = MaxData

C4_RoundTrip ==
    [][(IsWriteOk /\ objs[last'.obj].cls = "FileEsc") =>
        \A seq \in {ParseSequence(Emitted(last'.arg.b.base))} :
        LET o == objs[last'.obj]
            n == ValueOf(seq.items, KeyName)
            decoded == [data |-> B64Decode(seq.body),
                        name |-> IF n = Invalid THEN <<>>
                                 ELSE <<Utf8Decode(B64Decode(n))>>]
        IN  /\ seq.ok
            /\ decoded = [data |-> DataOf(last'.obj), name |-> o.name]
            /\ ParseNat(ValueOf(seq.items, KeySize)) = Len(DataOf(last'.obj))]_vars

\* a FileEsc with data of every padding length and a two-byte character in
\* its name has been written
C4_Witness ==
    /\ last.op = "write" /\ last.res = "ok"
    /\ objs[last.obj].cls = "FileEsc"
    /\ objs[last.obj].name = << <<233>> >>
    /\ DataOf(last.obj) = <<255, 58>>

\* C9: scaling in place leaves every unit as it is; a written ImageEsc whose
\* width (height) has the unit AUTO has width=auto (height=auto) in its
\* argument string, whatever the value; and an ImageEsc with empty data, no
\* name, AUTO width and height and preserve_aspect_ratio on is written as
\* ESC ]1337;File=size=0;width=auto;height=auto;preserveAspectRatio=1;inline=1:
\* BEL newline.
C9_AutoRendersAuto ==
    [][/\ last'.op \in {"imul", "itruediv"} =>
            /\ DOMAIN dims' = DOMAIN dims
            /\ \A d \in DOMAIN dims : dims'[d].unit = dims[d].unit
       /\ (IsWriteOk /\ objs[last'.obj].cls = "ImageEsc") =>
            \A out \in {Emitted(last'.arg.b.base)} : \A seq \in {ParseSequence(out)} :
            LET o == objs[last'.obj]
            IN  /\ dims[o.width].unit = "AUTO" => ValueOf(seq.items, KeyWidth) = TextAuto
                /\ dims[o.height].unit = "AUTO" => ValueOf(seq.items, KeyHeight) = TextAuto
                /\ ( /\ DataOf(last'.obj) = <<>> /\ o.name = <<>>
                     /\ o.preserve_aspect_ratio
                     /\ dims[o.width].unit = "AUTO" /\ dims[o.height].unit = "AUTO" )
                   => out = <<27, 93, 49, 51, 51, 55, 59, 70, 105, 108, 101, 61>>
                            \o <<115, 105, 122, 101, 61, 48, 59>>
                            \o <<119, 105, 100, 116, 104, 61, 97, 117, 116, 111, 59>>
                            \o <<104, 101, 105, 103, 104, 116, 61, 97, 117, 116, 111, 59>>
                            \o KeyAspect \o <<61, 49, 59>>
                            \o KeyInline \o <<61, 49, 58, 7, 10>>]_vars

\* an ImageEsc whose AUTO width was scaled to a value other than the one it
\* was made with has been written
C9_Witness ==
    /\ last.op = "write" /\ last.res = "ok"
    /\ objs[last.obj].cls = "ImageEsc"
    /\ dims[objs[last.obj].width].unit = "AUTO"
    /\ dims[objs[last.obj].width].value = Float(1, 1)

(***************************************************************************)
(* Properties of copies and the scaling operators.                         *)
(***************************************************************************)
\* what payload p is, by value: its data, name, sizes and flag
ViewOf(o, d, b, p) ==
    [data |-> b[o[p].buf], name |-> o[p].name, width |-> d[o[p].width],
     height |-> d[o[p].height], preserve_aspect_ratio |-> o[p].preserve_aspect_ratio]

ScalingOps == {"imul", "itruediv", "mul", "truediv", "rmul"}

\* C5: a call of *, / or reflected * leaves the payload it is called on as it
\* was; a later in-place scale or detect_size on a copy leaves the payload it
\* was copied from as it was, and the other way round; a copy shares no
\* ImageDim and no mutable buffer with the payload it was copied from.
C5_CopyLeavesOriginal ==
    [][/\ last'.op \in {"mul", "truediv", "rmul"} =>
            ViewOf(objs', dims', bufs', last'.obj) = ViewOf(objs, dims, bufs, last'.obj)
       /\ last'.op \in {"imul", "itruediv", "detect_size"} =>
            \A q \in DOMAIN objs \ {last'.obj} :
                (origin[q] = last'.obj \/ origin[last'.obj] = q) =>
                    ViewOf(objs', dims', bufs', q) = ViewOf(objs, dims, bufs, q)
       /\ \A q \in DOMAIN objs' :
            origin'[q] # 0 =>
                LET c == objs'[q]
                    o == objs'[origin'[q]]
                IN  /\ {c.width, c.height} \cap {o.width, o.height} = {}
                    /\ c.buf = o.buf => bufs'[c.buf].kind = "bytes"]_vars

\* a copy was scaled in place and now differs from the payload it was copied
\* from
C5_Witness ==
    /\ last.op \in {"imul", "itruediv"} /\ last.res = "ok"
    /\ last.obj \in DOMAIN origin
    /\ origin[last.obj] # 0
    /\ dims[objs[last.obj].width].value # dims[objs[origin[last.obj]].width].value
    /\ bufs[objs[last.obj].buf].kind = "bytearray"

\* C6 as stated: *=, /=, *, / and reflected * with a negative number fail
\* with ValueError and leave every width and height as it was
C6_NegativeFactorRaises ==
    [][(last'.op \in ScalingOps /\ LessThanZero(last'.arg)) =>
        (last'.res = "ValueError" /\ objs' = objs /\ dims' = dims)]_vars

\* C7 as stated: / and /= by zero return, and leave the width and the height
\* of the result infinite or nan
C7_DivideByZeroGivesInfOrNaN ==
    [][(last'.op \in {"itruediv", "truediv"} /\ IsNumber(last'.arg)
        /\ last'.arg.k = "zero") =>
        /\ last'.res = "ok"
        /\ dims'[objs'[last'.ret].width].value.k \in {"inf", "nan"}
        /\ dims'[objs'[last'.ret].height].value.k \in {"inf", "nan"}]_vars

\* C7 as amended: / and /= by zero are not special-cased and fail: /= raises
\* ZeroDivisionError when it takes the reciprocal, / does so after it made
\* its copy (or fails in the copy, when the data cannot be deep-copied); no
\* payload is made or changed.
C7_DivideByZeroRaises ==
    [][(last'.op \in {"itruediv", "truediv"} /\ IsNumber(last'.arg)
        /\ last'.arg.k = "zero") =>
        /\ \/ last'.res = "ZeroDivisionError"
           \/ /\ last'.op = "truediv"
              /\ bufs[objs[last'.obj].buf].kind = "memoryview"
              /\ last'.res = "TypeError"
        /\ last'.ret = 0
        /\ objs' = objs /\ dims' = dims /\ bufs' = bufs]_vars

\* an ImageEsc with sizes in pixels and percent was divided by 0.0
C7_Witness ==
    /\ last.op = "truediv" /\ IsNumber(last.arg) /\ last.arg.k = "zero"
    /\ last.res = "ZeroDivisionError"
    /\ dims[objs[last.obj].width].unit = "PIXELS"

\* C10 as stated: *= k with k >= 0 leaves width.value and height.value at k
\* times what they were, and * k returns a payload whose width.value and
\* height.value are k times those of the payload it was called on
C10_ScalesOnce ==
    [][/\ (last'.op = "imul" /\ last'.res = "ok") =>
            LET o == objs[last'.obj]
            IN  /\ dims'[o.width].value = NumMul(dims[o.width].value, last'.arg)
                /\ dims'[o.height].value = NumMul(dims[o.height].value, last'.arg)
       /\ (last'.op \in {"mul", "rmul"} /\ last'.res = "ok") =>
            LET o == objs[last'.obj]
                c == objs'[last'.ret]
            IN  /\ dims'[c.width].value = NumMul(dims[o.width].value, last'.arg)
                /\ dims'[c.height].value = NumMul(dims[o.height].value, last'.arg)]_vars

====
